---- MODULE Spec2Model ----
(***************************************************************************)
(* State-machine model of the airline network optimiser bot:               *)
(*   utils/http.py    HTTPClient.fetch_json and the process-wide TTL cache *)
(*   cogs/network.py  NetworkCog.network_run (fetch, resolve HQ, filter,   *)
(*                    enrich behind a 20-slot semaphore, score, rank, send)*)
(*   utils/scoring.py the scoring profiles and calculate_bos               *)
(*   utils/geo.py     haversine_distance                                   *)
(*                                                                         *)
(* asyncio is cooperative: the code between two awaits runs atomically, so *)
(* every action below is the code from one suspension point to the next.   *)
(*                                                                         *)
(* The specifications of the module:                                       *)
(*   CacheSpec  concurrent callers of fetch_json over the shared cache     *)
(*   GateSpec   fetch_competition tasks at the cog's semaphore             *)
(*   Spec       one invocation of network_run after another                *)
(*   LiveSpec   Spec with the fairness of the event loop                   *)
(*   RankSpec   the sort and the cut of the scored rows                    *)
(*   TableSpec  _format_table and the message that carries the table       *)
(*   ScoringSpec      the import of utils/scoring.py and calculate_bos     *)
(*   CompetitionSpec  the capacity sum of fetch_competition                *)
(***************************************************************************)
EXTENDS Integers, Sequences, FiniteSets, TLC

VARIABLES
    now,        \* time.time(), in seconds
    cache,      \* http._cache: cache_key -> [data, timestamp]
    call,       \* the fetch_json calls: call id -> position and history
    semaphore,  \* NetworkCog.semaphore._value
    gate,       \* GateSpec: per run, its fetch_competition tasks by position
    run,        \* Spec: the invocation of network_run under way
    task,       \* Spec: the fetch_competition task of each candidate
    unranked,   \* RankSpec: scored_airports before the sort
    ranked,     \* RankSpec, TableSpec: top_airports, the rows of the table
    rendered,   \* TableSpec: the text _format_table returned
    content,    \* TableSpec: the content of the message sent
    environ,    \* os.environ, as far as utils/scoring.py reads it
    scoring,    \* the module utils/scoring.py: its globals after the import
    bosCalls,   \* ScoringSpec: the two most recent calls of calculate_bos
    response,   \* CompetitionSpec: what fetch_airport_links returned
    seats       \* CompetitionSpec: the competition written, or the raise

cacheVars == <<now, cache, call>>

gateVars == <<semaphore, gate>>

runVars == <<run, task>>

tableVars == <<unranked, ranked, rendered, content>>

scoringVars == <<environ, scoring, bosCalls>>

linksVars == <<response, seats>>

vars ==
    <<now, cache, call, semaphore, gate, run, task,
      unranked, ranked, rendered, content, environ, scoring, bosCalls,
      response, seats>>

-----------------------------------------------------------------------------
(* Bounds of the model *)

\* the clock advances TimeStep seconds at a time, up to MaxTime
TimeStep == 300
MaxTime == 900
\* number of fetch_json calls of CacheSpec
NumCalls == 3
\* Spec: link fetches of another run of the cog that resolve meanwhile
OtherFinishes == 3
\* GateSpec: the first run has up to MaxCandidates candidates, a second run
\* of the same cog up to OtherCandidates
MaxCandidates == 21
OtherCandidates == 1
\* response bodies 1..NumBodies of an endpoint (body 0 is the JSON text null)
NumBodies == 1
\* RankSpec: up to MaxScored scored rows go into the sort
MaxScored == 16
\* TableSpec: tables of 1 to MaxRows rows are rendered
MaxRows == 15

-----------------------------------------------------------------------------
(* utils/http.py *)

CACHE_TTL == 600

\* Python's None; response.json() of the body "null" is None as well
None == 0

JsonNullBody == 0

COUNTRIES == "/countries"

AIRPORTS == "/airports"

\* f"/airports/{airport_id}/links"
LinksEndpoint(airport_id) == "/airports/" \o ToString(airport_id) \o "/links"

\* data = await response.json()
ResponseJson(body) == IF body = JsonNullBody THEN None ELSE body

\* what the upstream can answer to one request: a 200 with a JSON body, a
\* 200 whose body is not JSON, another status, a timeout, a network error
OutcomesUpTo(n) ==
    [kind : {"ok"}, body : 0..n]
        \cup [kind : {"badjson", "status", "timeout", "error"}, body : {0}]

Outcomes == OutcomesUpTo(NumBodies)

\* response.status == 200 and response.json() decoded (lines 104-105)
Succeeded(outcome) == outcome.kind = "ok"

\* cache_age < CACHE_TTL
CacheFreshStale(cache_age) == cache_age <= CACHE_TTL

CacheFresh(cache_age) == cache_age < CACHE_TTL

\* lines 80-89: use_cache and cache_key in _cache and age < CACHE_TTL
CacheHit(c, cache_key, use_cache, t) ==
    /\ use_cache
    /\ cache_key \in DOMAIN c
    /\ CacheFresh(t - c[cache_key].timestamp)

\* _cache[cache_key] = {"data": data, "timestamp": time.time()}
CachePutKeepsFirstStamp(c, cache_key, data, t) ==
    [k \in DOMAIN c \cup {cache_key} |->
        IF k # cache_key THEN c[k]
        ELSE IF k \in DOMAIN c
        THEN [data |-> data, timestamp |-> c[k].timestamp]
        ELSE [data |-> data, timestamp |-> t]]

CachePutUnderUrl(c, cache_key, data, t) ==
    [k \in DOMAIN c \cup {"https://www.airline-club.com" \o cache_key} |->
        IF k = "https://www.airline-club.com" \o cache_key
        THEN [data |-> data, timestamp |-> t] ELSE c[k]]

CachePut(c, cache_key, data, t) ==
    [k \in DOMAIN c \cup {cache_key} |->
        IF k = cache_key THEN [data |-> data, timestamp |-> t] ELSE c[k]]

\* lines 104-139: the cache after the response of a request
CacheAfterResponseAlways(c, cache_key, use_cache, outcome, t) ==
    IF use_cache
    THEN CachePut(c, cache_key, ResponseJson(outcome.body), t)
    ELSE c

CacheAfterResponse(c, cache_key, use_cache, outcome, t) ==
    IF Succeeded(outcome) /\ use_cache
    THEN CachePut(c, cache_key, ResponseJson(outcome.body), t)
    ELSE c

\* lines 104-139: the value fetch_json returns for the response
FetchResult(outcome) ==
    IF Succeeded(outcome) THEN ResponseJson(outcome.body) ELSE None

\* via: how the call got its result ("cache", or the request's "ok" or
\* "failed"); storedAt: the timestamp the call wrote into the cache
IdleCall ==
    [pc |-> "idle", endpoint |-> "", use_cache |-> FALSE, result |-> None,
     via |-> "none", storedAt |-> 0]

\* fetch_json up to its first suspension point (lines 76-100): a fresh cache
\* entry is returned at once, otherwise the request is issued
FetchJsonStart(id, endpoint, use_cache) ==
    /\ call[id].pc = "idle"
    /\ IF CacheHit(cache, endpoint, use_cache, now)
       THEN call' = [call EXCEPT ![id] =
                [pc |-> "returned", endpoint |-> endpoint,
                 use_cache |-> use_cache,
                 result |-> cache[endpoint].data, via |-> "cache",
                 storedAt |-> 0]]
       ELSE call' = [call EXCEPT ![id] =
                [pc |-> "pending", endpoint |-> endpoint,
                 use_cache |-> use_cache,
                 result |-> None, via |-> "network", storedAt |-> 0]]
    /\ UNCHANGED <<now, cache>>

\* fetch_json from the response to its return (lines 100-139)
FetchJsonRespond(id, outcome) ==
    /\ call[id].pc = "pending"
    /\ cache' = CacheAfterResponse(cache, call[id].endpoint,
                                   call[id].use_cache, outcome, now)
    /\ call' = [call EXCEPT
                ![id].pc = "returned",
                ![id].result = FetchResult(outcome),
                ![id].via = IF Succeeded(outcome) THEN "ok" ELSE "failed",
                ![id].storedAt =
                    IF Succeeded(outcome) /\ call[id].use_cache
                    THEN now ELSE 0]
    /\ UNCHANGED now

\* time passes
Tick ==
    /\ now + TimeStep <= MaxTime
    /\ now' = now + TimeStep
    /\ UNCHANGED <<cache, call>>

-----------------------------------------------------------------------------
(* JSON values as Python holds them after response.json(). The fields of   *)
(* the country and airport records are kept as plain strings and numbers   *)
(* (the code never inspects their types); the link records are tagged      *)
(* throughout, because fetch_competition branches on isinstance.           *)

JNull == [t |-> "null"]

JNum(n) == [t |-> "num", n |-> n]

JStr(str) == [t |-> "str", s |-> str]

JList(items) == [t |-> "list", items |-> items]

JDict(fields) == [t |-> "dict", fields |-> fields]

\* type(v).__name__
TypeName(v) ==
    CASE v.t = "null" -> "NoneType"
      [] v.t = "num" -> "int"
      [] v.t = "str" -> "str"
      [] v.t = "list" -> "list"
      [] v.t = "dict" -> "dict"

\* an exception propagating out of the expression; e is str(e)
Raised(e) == [t |-> "raise", e |-> e]

\* x.get(...) on a value that is no dict
NoGet(v) == Raised("'" \o TypeName(v) \o "' object has no attribute 'get'")

\* dict.get(key, default)
DictGet(d, key, default) ==
    IF key \in DOMAIN d.fields THEN d.fields[key] ELSE default

\* a + b: numbers add, strings concatenate, anything else is a TypeError
Add(a, b) ==
    IF a.t = "raise" THEN a
    ELSE IF b.t = "raise" THEN b
    ELSE IF a.t = "num" /\ b.t = "num" THEN JNum(a.n + b.n)
    ELSE IF a.t = "str" /\ b.t = "str" THEN JStr(a.s \o b.s)
    ELSE Raised("unsupported operand type(s) for +: '" \o TypeName(a)
                    \o "' and '" \o TypeName(b) \o "'")

\* str.upper(), a string being the sequence of its characters
LowerToUpper ==
    [a |-> "A", f |-> "F", h |-> "H", j |-> "J", k |-> "K", l |-> "L",
     o |-> "O", s |-> "S", v |-> "V", x |-> "X"]

UpperChar(c) == IF c \in DOMAIN LowerToUpper THEN LowerToUpper[c] ELSE c

Upper(str) == [i \in 1..Len(str) |-> UpperChar(str[i])]

-----------------------------------------------------------------------------
(* The upstream API: what GET /countries, GET /airports and                *)
(* GET /airports/{id}/links can answer with status 200                     *)

\* 1: two countries; 2: a list holding a string instead of a record
CountriesBodies ==
    << JList(<< JDict([countryCode |-> "US", openness |-> 10]),
                JDict([countryCode |-> "CU", openness |-> 2]) >>),
       JList(<< JStr("US") >>) >>

\* coordinates in hundredths of a degree
LAX ==
    JDict([id |-> 1, iata |-> <<"L", "A", "X">>, countryCode |-> "US",
           name |-> "Los Angeles International Airport",
           latitude |-> 3394, longitude |-> -11841,
           population |-> 200, incomeLevel |-> 30])

SFO ==
    JDict([id |-> 2, iata |-> <<"s", "f", "o">>, countryCode |-> "US",
           name |-> "San Francisco",
           latitude |-> 3762, longitude |-> -12238,
           population |-> 50, incomeLevel |-> 30])

HAV ==
    JDict([id |-> 3, iata |-> <<"H", "A", "V">>, countryCode |-> "CU",
           latitude |-> 2299, longitude |-> -8241,
           population |-> 200, incomeLevel |-> 20])

\* a second airport answering to "LAX", in a country the countries
\* collection does not list, with no population
ALT ==
    JDict([id |-> 4, iata |-> <<"l", "a", "x">>, countryCode |-> "ZZ",
           latitude |-> 3400, longitude |-> -11500,
           population |-> 0, incomeLevel |-> 20])

\* a second airport of the city of SFO: the same place, population and
\* income level, so the same score at the same competition
OAK ==
    JDict([id |-> 5, iata |-> <<"O", "A", "K">>, countryCode |-> "US",
           name |-> "Oakland",
           latitude |-> 3762, longitude |-> -12238,
           population |-> 50, incomeLevel |-> 30])

\* 1: four airports; 2: no airport; 3: a list holding a number; 4: three
\* airports, two of them alike
AirportsBodies ==
    << JList(<<LAX, SFO, HAV, ALT>>),
       JList(<< >>),
       JList(<< JNum(1) >>),
       JList(<<LAX, SFO, OAK>>) >>

\* the link responses: flat and nested capacities, the three key names,
\* the dict wrappers, records and values of the wrong type
LinksBodies ==
    << JList(<< JDict([capacity |-> JNum(50000)]),
                JDict([assignedCapacity |-> JNum(25000)]) >>),
       JList(<< >>),
       JDict([links |-> JList(<< JDict([totalCapacity |-> JNum(25000)]) >>)]),
       JDict([data |-> JList(<<
           JDict([capacity |-> JDict([economy |-> JNum(20000),
                                      business |-> JNum(4000),
                                      first |-> JNum(1000)])]) >>)]),
       JStr("unavailable"),
       JList(<< JStr("x"),
                JDict([capacity |-> JStr("many")]),
                JDict([airline |-> JNum(7)]),
                JDict([capacity |-> JNum(25000)]) >>),
       JList(<< JDict([capacity |-> JDict([economy |-> JNull,
                                           business |-> JNum(4000),
                                           first |-> JNum(1000)])]) >>),
       JList(<< JDict([capacity |-> JNum(-5000)]) >>),
       JList(<< JDict([capacity |-> JDict([total |-> JNum(20000),
                                           economy |-> JNum(15000),
                                           business |-> JNum(4000),
                                           first |-> JNum(1000)])]) >>),
       JDict([links |-> JStr("none")]) >>

\* the data fetch_json returned: None, or the decoded body
Data(bodies, index) == IF index = None THEN JNull ELSE bodies[index]

-----------------------------------------------------------------------------
(* utils/geo.py *)

\* haversine_distance, in metres, tabulated from the function for the
\* coordinates of the airports above
Haversine(lat1, lon1, lat2, lon2) ==
    LET pair == {<<lat1, lon1>>, <<lat2, lon2>>}
        lax == <<3394, -11841>>
        sfo == <<3762, -12238>>
        hav == <<2299, -8241>>
        alt == <<3400, -11500>>
    IN  CASE Cardinality(pair) = 1 -> 0
          [] pair = {lax, sfo} -> 543662
          [] pair = {lax, hav} -> 3701319
          [] pair = {lax, alt} -> 314517
          [] pair = {sfo, hav} -> 4129065
          [] pair = {sfo, alt} -> 777378
          [] pair = {hav, alt} -> 3393983

-----------------------------------------------------------------------------
(* utils/scoring.py; fixed point: the exponents and the powers in          *)
(* hundredths, the weights and the penalty in thousandths, the score in    *)
(* hundredths                                                              *)

\* str.lower(), for the letters of the alphabet
UpperToLower ==
    [A |-> "a", B |-> "b", C |-> "c", D |-> "d", E |-> "e", F |-> "f",
     G |-> "g", H |-> "h", I |-> "i", J |-> "j", K |-> "k", L |-> "l",
     M |-> "m", N |-> "n", O |-> "o", P |-> "p", Q |-> "q", R |-> "r",
     S |-> "s", T |-> "t", U |-> "u", V |-> "v", W |-> "w", X |-> "x",
     Y |-> "y", Z |-> "z"]

LowerChar(c) == IF c \in DOMAIN UpperToLower THEN UpperToLower[c] ELSE c

RECURSIVE Lower(_)
Lower(str) ==
    IF str = "" THEN ""
    ELSE LowerChar(SubSeq(str, 1, 1)) \o Lower(SubSeq(str, 2, Len(str)))

\* lines 20-51
PROFILES ==
    [balanced |->
        [POP_EXP |-> 85, INCOME_EXP |-> 125, COMP_SCALE |-> 25000,
         COMP_EXP |-> 120, DIST_MU |-> 1500, DIST_SIGMA |-> 1200,
         DIST_FLOOR |-> 250, DIST_PEAK |-> 1800],
     growth |->
        [POP_EXP |-> 90, INCOME_EXP |-> 130, COMP_SCALE |-> 25000,
         COMP_EXP |-> 100, DIST_MU |-> 1400, DIST_SIGMA |-> 1200,
         DIST_FLOOR |-> 300, DIST_PEAK |-> 2000],
     conservative |->
        [POP_EXP |-> 80, INCOME_EXP |-> 120, COMP_SCALE |-> 25000,
         COMP_EXP |-> 140, DIST_MU |-> 1600, DIST_SIGMA |-> 1200,
         DIST_FLOOR |-> 250, DIST_PEAK |-> 1600]]

\* os.environ.get(key, default)
EnvironGet(env, key, default) ==
    IF key \in DOMAIN env THEN env[key] ELSE default

\* line 54: BOS_PROFILE not in PROFILES
ProfileUnknownNever(name) == FALSE

ProfileUnknown(name) == name \notin DOMAIN PROFILES

\* line 55: the warning printed
Warning(name) ==
    "Warning: Unknown BOS_PROFILE '" \o name \o "', defaulting to 'balanced'"

\* the module before its import
NotImported ==
    [imported |-> FALSE, error |-> "", BOS_PROFILE |-> "",
     ACTIVE_PROFILE |-> << >>, printed |-> << >>]

\* lines 17-58: the import of the module; PROFILES[BOS_PROFILE] of a name
\* that is no key raises KeyError and the import fails
ImportScoring(env) ==
    LET name == Lower(EnvironGet(env, "BOS_PROFILE", "balanced"))
        unknown == ProfileUnknown(name)
        BOS_PROFILE == IF unknown THEN "balanced" ELSE name
        printed == IF unknown THEN <<Warning(name)>> ELSE << >>
    IN  IF BOS_PROFILE \in DOMAIN PROFILES
        THEN [imported |-> TRUE, error |-> "", BOS_PROFILE |-> BOS_PROFILE,
              ACTIVE_PROFILE |-> PROFILES[BOS_PROFILE], printed |-> printed]
        ELSE [imported |-> FALSE, error |-> "KeyError",
              BOS_PROFILE |-> BOS_PROFILE, ACTIVE_PROFILE |-> << >>,
              printed |-> printed]

\* the bot started without BOS_PROFILE in its environment
ScoringLoaded ==
    /\ environ = << >>
    /\ scoring = ImportScoring(environ)
    /\ bosCalls = << >>

\* lines 60-68: the parameters of the active profile
ACTIVE_PROFILE == scoring.ACTIVE_PROFILE

POP_EXP == ACTIVE_PROFILE.POP_EXP

INCOME_EXP == ACTIVE_PROFILE.INCOME_EXP

COMP_SCALE == ACTIVE_PROFILE.COMP_SCALE

COMP_EXP == ACTIVE_PROFILE.COMP_EXP

DIST_MU == ACTIVE_PROFILE.DIST_MU

DIST_SIGMA == ACTIVE_PROFILE.DIST_SIGMA

DIST_FLOOR == ACTIVE_PROFILE.DIST_FLOOR

DIST_PEAK == ACTIVE_PROFILE.DIST_PEAK

\* base ** (exponent / 100), in hundredths, tabulated from the function
Pow(base, exponent) ==
    CASE base = 0 -> 0
      [] <<base, exponent>> = <<50, 85>> -> 2781
      [] <<base, exponent>> = <<200, 85>> -> 9034
      [] <<base, exponent>> = <<50, 90>> -> 3381
      [] <<base, exponent>> = <<200, 90>> -> 11774
      [] <<base, exponent>> = <<50, 80>> -> 2287
      [] <<base, exponent>> = <<200, 80>> -> 6931
      [] <<base, exponent>> = <<20, 125>> -> 4229
      [] <<base, exponent>> = <<30, 125>> -> 7021
      [] <<base, exponent>> = <<20, 130>> -> 4913
      [] <<base, exponent>> = <<30, 130>> -> 8323
      [] <<base, exponent>> = <<20, 120>> -> 3641
      [] <<base, exponent>> = <<30, 120>> -> 5923

\* population ** POP_EXP
PopPow(population) == Pow(population, POP_EXP)

\* income_level ** INCOME_EXP
IncomePow(income_level) == Pow(income_level, INCOME_EXP)

\* (1 + math.log(1 + competition / COMP_SCALE)) ** COMP_EXP, in
\* thousandths, tabulated from the function for COMP_SCALE = 25000
CompPenConstant(competition) == 1000

CompPen(competition) ==
    CASE competition = 0 -> 1000
      [] <<competition, COMP_EXP>> = <<5000, 120>> -> 1223
      [] <<competition, COMP_EXP>> = <<25000, 120>> -> 1881
      [] <<competition, COMP_EXP>> = <<75000, 120>> -> 2840
      [] <<competition, COMP_EXP>> = <<5000, 100>> -> 1182
      [] <<competition, COMP_EXP>> = <<25000, 100>> -> 1693
      [] <<competition, COMP_EXP>> = <<75000, 100>> -> 2386
      [] <<competition, COMP_EXP>> = <<5000, 140>> -> 1264
      [] <<competition, COMP_EXP>> = <<25000, 140>> -> 2090
      [] <<competition, COMP_EXP>> = <<75000, 140>> -> 3379

\* math.exp(-((distance - DIST_MU) ** 2) / (2 * DIST_SIGMA ** 2)), in
\* thousandths, tabulated from the function for DIST_SIGMA = 1200
Gaussian(distance) ==
    CASE <<distance, DIST_MU>> = <<0, 1500>> -> 458
      [] <<distance, DIST_MU>> = <<314517, 1500>> -> 614
      [] <<distance, DIST_MU>> = <<543662, 1500>> -> 728
      [] <<distance, DIST_MU>> = <<777378, 1500>> -> 834
      [] <<distance, DIST_MU>> = <<3393983, 1500>> -> 288
      [] <<distance, DIST_MU>> = <<3701319, 1500>> -> 186
      [] <<distance, DIST_MU>> = <<4129065, 1500>> -> 91
      [] <<distance, DIST_MU>> = <<0, 1400>> -> 506
      [] <<distance, DIST_MU>> = <<314517, 1400>> -> 664
      [] <<distance, DIST_MU>> = <<543662, 1400>> -> 775
      [] <<distance, DIST_MU>> = <<777378, 1400>> -> 874
      [] <<distance, DIST_MU>> = <<3393983, 1400>> -> 251
      [] <<distance, DIST_MU>> = <<3701319, 1400>> -> 159
      [] <<distance, DIST_MU>> = <<4129065, 1400>> -> 75
      [] <<distance, DIST_MU>> = <<0, 1600>> -> 411
      [] <<distance, DIST_MU>> = <<314517, 1600>> -> 563
      [] <<distance, DIST_MU>> = <<543662, 1600>> -> 679
      [] <<distance, DIST_MU>> = <<777378, 1600>> -> 791
      [] <<distance, DIST_MU>> = <<3393983, 1600>> -> 327
      [] <<distance, DIST_MU>> = <<3701319, 1600>> -> 216
      [] <<distance, DIST_MU>> = <<4129065, 1600>> -> 109

Max(a, b) == IF a >= b THEN a ELSE b

Min(a, b) == IF a <= b THEN a ELSE b

\* lines 97-99: the inputs calculate_bos gives no score for
BosInvalidNegativeOnly(population, income_level) ==
    population < 0 \/ income_level < 0

BosInvalid(population, income_level) ==
    population <= 0 \/ income_level <= 0

\* calculate_bos: None, or the score
CalculateBos(population, income_level, competition, distance, openness) ==
    IF BosInvalid(population, income_level) THEN JNull
    ELSE
        LET economics == (PopPow(population) * IncomePow(income_level)) \div 100
            comp_pen == CompPen(Max(competition, 0))
            dist_weight ==
                DIST_FLOOR
                    + ((DIST_PEAK - DIST_FLOOR) * Gaussian(distance)) \div 1000
            openness_weight == 900 + 20 * Max(0, Min(10, openness))
            dampened == (economics * 1000) \div comp_pen
            weighted == (dampened * dist_weight) \div 1000
        IN  JNum((weighted * openness_weight) \div 1000)

\* the default of the parameter openness (line 76)
DefaultOpenness == 5

-----------------------------------------------------------------------------
(* cogs/network.py: network_run, from the bulk fetch to the filter         *)

\* line 77: countries_data is None or airports_data is None
BulkFailedBoth(countries, airports) == countries = None /\ airports = None

BulkFailed(countries, airports) == countries = None \/ airports = None

\* followup.send of one message; rows are the rows of the table
Message(kind, rows) == [kind |-> kind, rows |-> rows, text |-> ""]

Send(sent, kind) == Append(sent, Message(kind, << >>))

\* lines 330-336: the except clause sends the generic failure message,
\* which carries str(e)
HandleExceptionLogOnly(sent, e) == sent

HandleExceptionNoText(sent, e) == Send(sent, "error")

HandleException(sent, e) ==
    Append(sent, [Message("error", << >>) EXCEPT !.text = e])

MapPut(m, key, value) ==
    [x \in DOMAIN m \cup {key} |-> IF x = key THEN value ELSE m[x]]

\* lines 99-103: the loop building country_openness
RECURSIVE BuildOpennessFrom(_, _, _)
BuildOpennessFrom(countries, i, country_openness) ==
    IF i > Len(countries) THEN [t |-> "map", m |-> country_openness]
    ELSE IF countries[i].t # "dict" THEN NoGet(countries[i])
    ELSE BuildOpennessFrom(countries, i + 1,
            MapPut(country_openness,
                   DictGet(countries[i], "countryCode", ""),
                   DictGet(countries[i], "openness", 0)))

\* line 87: len() of a payload that is no collection
NoLen(v) == Raised("object of type '" \o TypeName(v) \o "' has no len()")

\* for x in data: only a list is iterated record by record
BuildOpenness(countries_data) ==
    IF countries_data.t # "list" THEN NoLen(countries_data)
    ELSE BuildOpennessFrom(countries_data.items, 1, << >>)

\* lines 108-112: the index of the HQ airport, 0 for None
RECURSIVE FindHQLastFrom(_, _, _, _)
FindHQLastFrom(airports, i, hq_code, found) ==
    IF i > Len(airports) THEN JNum(found)
    ELSE IF airports[i].t # "dict" THEN NoGet(airports[i])
    ELSE FindHQLastFrom(airports, i + 1, hq_code,
            IF Upper(DictGet(airports[i], "iata", << >>)) = hq_code
            THEN i ELSE found)

RECURSIVE FindHQFrom(_, _, _, _)
FindHQFrom(airports, i, hq_code, found) ==
    IF i > Len(airports) THEN JNum(found)
    ELSE IF airports[i].t # "dict" THEN NoGet(airports[i])
    ELSE IF Upper(DictGet(airports[i], "iata", << >>)) = hq_code THEN JNum(i)
    ELSE FindHQFrom(airports, i + 1, hq_code, found)

FindHQ(airports_data, hq_code) ==
    IF airports_data.t # "list" THEN NoLen(airports_data)
    ELSE FindHQFrom(airports_data.items, 1, hq_code, 0)

\* line 146: openness < min_openness
OpennessTooLowOrEqual(openness, min_openness) == openness <= min_openness

OpennessTooLow(openness, min_openness) == openness < min_openness

\* line 154: distance > max_distance (metres against kilometres)
TooFar(distance, max_distance) == distance > max_distance * 1000

\* country_openness.get(country_code, 0)
OpennessOf(country_openness, country_code) ==
    IF country_code \in DOMAIN country_openness
    THEN country_openness[country_code] ELSE 0

\* lines 137-163: the filter loop; a candidate keeps the index of its
\* airport in airports_data, its distance and its openness
RECURSIVE FilterFrom(_, _, _, _, _, _, _)
FilterFrom(airports, i, hq, country_openness, min_openness, max_distance, filtered_airports) ==
    IF i > Len(airports) THEN JList(filtered_airports)
    ELSE IF airports[i].t # "dict" THEN NoGet(airports[i])
    ELSE
        LET airport == airports[i]
            openness ==
                OpennessOf(country_openness, DictGet(airport, "countryCode", ""))
            distance ==
                Haversine(DictGet(hq, "latitude", 0), DictGet(hq, "longitude", 0),
                          DictGet(airport, "latitude", 0),
                          DictGet(airport, "longitude", 0))
            skip ==
                \/ DictGet(airport, "id", None) = DictGet(hq, "id", None)
                \/ OpennessTooLow(openness, min_openness)
                \/ TooFar(distance, max_distance)
        IN  FilterFrom(airports, i + 1, hq, country_openness, min_openness,
                       max_distance,
                       IF skip THEN filtered_airports
                       ELSE Append(filtered_airports,
                                [airport |-> i, distance |-> distance,
                                 openness |-> openness]))

\* lines 77-177: network_run from the return of the bulk gather to its next
\* suspension point: a failure message and return, or the candidates
AfterBulk(r, countries, airports) ==
    IF BulkFailed(countries, airports)
    THEN [r EXCEPT !.pc = "done", !.sent = Send(r.sent, "unavailable")]
    ELSE
    LET countries_data == Data(CountriesBodies, countries)
        airports_data == Data(AirportsBodies, airports)
        built == BuildOpenness(countries_data)
        found == IF built.t = "raise" THEN built
                 ELSE FindHQ(airports_data, r.hq_code)
    IN  IF found.t = "raise"
        THEN [r EXCEPT !.pc = "done",
                       !.sent = HandleException(r.sent, found.e)]
        ELSE IF found.n = 0
        THEN [r EXCEPT !.pc = "done", !.sent = Send(r.sent, "not_found")]
        ELSE
        LET filtered ==
                FilterFrom(airports_data.items, 1, airports_data.items[found.n],
                           built.m, r.min_openness, r.max_distance, << >>)
        IN  IF filtered.t = "raise"
            THEN [r EXCEPT !.pc = "done", !.hq = found.n,
                           !.sent = HandleException(r.sent, filtered.e)]
            ELSE IF filtered.items = << >>
            THEN [r EXCEPT !.pc = "done", !.hq = found.n,
                           !.sent = Send(r.sent, "no_matches")]
            ELSE [r EXCEPT !.pc = "enrich", !.hq = found.n,
                           !.candidates = filtered.items]

-----------------------------------------------------------------------------
(* cogs/network.py: fetch_competition (lines 182-239) *)

\* lines 207-212 and 228-232: the capacity one record of the link list adds
LinkCapacity(link) ==
    IF link.t # "dict" THEN JNum(0)
    ELSE
        LET found ==
                DictGet(link, "capacity",
                    DictGet(link, "assignedCapacity",
                        DictGet(link, "totalCapacity", JNum(0))))
            cap ==
                IF found.t = "dict"
                THEN Add(Add(DictGet(found, "total",
                                 DictGet(found, "economy", JNum(0))),
                             DictGet(found, "business", JNum(0))),
                         DictGet(found, "first", JNum(0)))
                ELSE found
        IN  IF cap.t \in {"num", "raise"} THEN cap ELSE JNum(0)

\* lines 203-212 and 226-232: the loop over the link list
RECURSIVE SumLinks(_, _, _)
SumLinks(links, i, competition) ==
    IF i > Len(links) THEN JNum(competition)
    ELSE
        LET cap == LinkCapacity(links[i])
        IN  IF cap.t = "raise" THEN cap
            ELSE SumLinks(links, i + 1, competition + cap.n)

\* lines 192-236: the competition of the links fetch_airport_links returned
Competition(links) ==
    IF links.t = "null" THEN JNum(0)
    ELSE IF links.t = "list" THEN SumLinks(links.items, 1, 0)
    ELSE IF links.t = "dict"
    THEN LET link_list ==
                 DictGet(links, "links", DictGet(links, "data", JList(<< >>)))
         IN  IF link_list.t = "list" THEN SumLinks(link_list.items, 1, 0)
             ELSE JNum(0)
    ELSE JNum(0)

\* no link response under way
Pending == [t |-> "pending"]

LinksIdle ==
    /\ response = JNull
    /\ seats = Pending

-----------------------------------------------------------------------------
(* cogs/network.py: network_run, scoring and ranking (lines 257-328) *)

TOP_N == 15

\* lines 264-288: the rows of scored_airports, in the order of results
RECURSIVE ScoreFrom(_, _, _, _)
ScoreFrom(airports, results, i, scored_airports) ==
    IF i > Len(results) THEN scored_airports
    ELSE
        LET airport == airports[results[i].airport]
            population == DictGet(airport, "population", 0)
            income_level == DictGet(airport, "incomeLevel", 0)
            bos == CalculateBos(population, income_level,
                                results[i].competition, results[i].distance,
                                DefaultOpenness)
        IN  ScoreFrom(airports, results, i + 1,
                IF bos.t = "null" THEN scored_airports
                ELSE Append(scored_airports,
                        [iata |-> DictGet(airport, "iata", <<"?", "?", "?">>),
                         name |-> DictGet(airport, "name", "Unknown"),
                         country_code |-> DictGet(airport, "countryCode", "??"),
                         openness |-> results[i].openness,
                         distance |-> results[i].distance,
                         population |-> population,
                         income |-> income_level,
                         competition |-> results[i].competition,
                         bos |-> bos.n]))

\* list.sort(key=bos, reverse=True) is stable: a row goes behind the rows
\* of greater or equal bos
RECURSIVE InsertByBosUnstable(_, _)
InsertByBosUnstable(sorted, row) ==
    IF sorted = << >> THEN <<row>>
    ELSE IF Head(sorted).bos > row.bos
    THEN <<Head(sorted)>> \o InsertByBosUnstable(Tail(sorted), row)
    ELSE <<row>> \o sorted

RECURSIVE InsertByBos(_, _)
InsertByBos(sorted, row) ==
    IF sorted = << >> THEN <<row>>
    ELSE IF Head(sorted).bos >= row.bos
    THEN <<Head(sorted)>> \o InsertByBos(Tail(sorted), row)
    ELSE <<row>> \o sorted

RECURSIVE SortByBos(_, _, _)
SortByBos(rows, i, sorted) ==
    IF i > Len(rows) THEN sorted
    ELSE SortByBos(rows, i + 1, InsertByBos(sorted, rows[i]))

\* scored_airports[:15]
Top(rows) == SubSeq(rows, 1, Min(TOP_N, Len(rows)))

\* lines 246-328: network_run from the return of the enrichment gather on:
\* results are the candidates in the order of filtered_airports
AfterEnrich(r, airports, results) ==
    LET scored_airports == ScoreFrom(airports, results, 1, << >>)
    IN  IF scored_airports = << >>
        THEN [r EXCEPT !.pc = "done",
                       !.sent = Send(r.sent, "no_valid_scores")]
        ELSE [r EXCEPT !.pc = "done", !.scored = scored_airports,
                       !.sent = Append(r.sent,
                            Message("table",
                                Top(SortByBos(scored_airports, 1, << >>))))]

-----------------------------------------------------------------------------
(* cogs/network.py: _format_table (lines 338-383) and the message that     *)
(* carries the table (line 328). Texts are strings; a row holds its        *)
(* distance in metres and its score in hundredths.                         *)

\* c * n
RECURSIVE Repeat(_, _)
Repeat(c, n) == IF n <= 0 THEN "" ELSE c \o Repeat(c, n - 1)

\* str.ljust(width), and the format specs "4s" and "2s"
Ljust(str, width) == str \o Repeat(" ", width - Len(str))

\* the format specs "4d", "2d", "7d", "6d" and "9d"
FormatD(n, width) ==
    Repeat(" ", width - Len(ToString(n))) \o ToString(n)

\* the format spec "8.1f" of a distance in kilometres
FormatDistance(distance) ==
    LET tenths == (distance + 50) \div 100
        text == ToString(tenths \div 10) \o "." \o ToString(tenths % 10)
    IN  Repeat(" ", 8 - Len(text)) \o text

\* the format spec "6.2f" of a score
FormatBos(bos) ==
    LET cents == bos % 100
        text == ToString(bos \div 100) \o "."
                    \o (IF cents < 10 THEN "0" ELSE "") \o ToString(cents)
    IN  Repeat(" ", 6 - Len(text)) \o text

\* the string of a sequence of characters
RECURSIVE Join(_)
Join(chars) == IF chars = << >> THEN "" ELSE Head(chars) \o Join(Tail(chars))

\* lines 350-353
Header ==
    "Rank | IATA | Name                   | CC(Open) | Dist(km) | "
        \o "Pop     | Income | CompSeats | BOS"

\* line 354: "-" * len(header)
SeparatorFixedWidth == Repeat("-", 80)

Separator == Repeat("-", Len(Header))

\* lines 360-374: the row of the airport of rank i
FormatRow(i, airport) ==
    LET name == Ljust(SubSeq(airport.name, 1, Min(22, Len(airport.name))), 22)
    IN  FormatD(i, 4) \o " | "
            \o Ljust(Join(airport.iata), 4) \o " | "
            \o name \o " | "
            \o Ljust(airport.country_code, 2)
            \o "(" \o FormatD(airport.openness, 2) \o ")   | "
            \o FormatDistance(airport.distance) \o " | "
            \o FormatD(airport.population, 7) \o " | "
            \o FormatD(airport.income, 6) \o " | "
            \o FormatD(airport.competition, 9) \o " | "
            \o FormatBos(airport.bos)

\* lines 348-374: the header, the separator and one row per airport
TableLines(airports) ==
    <<Header, Separator>>
        \o [i \in 1..Len(airports) |-> FormatRow(i, airports[i])]

\* "\n".join(lines)
RECURSIVE JoinLines(_)
JoinLines(lines) ==
    IF Len(lines) = 1 THEN lines[1]
    ELSE lines[1] \o "\n" \o JoinLines(Tail(lines))

\* lines 378-381
TruncateAt2000(text) ==
    IF Len(text) > 2000 THEN SubSeq(text, 1, 2000) \o "..." ELSE text

Truncate(text) ==
    IF Len(text) > 1900 THEN SubSeq(text, 1, 1900) \o "..." ELSE text

\* _format_table
FormatTable(airports) == Truncate(JoinLines(TableLines(airports)))

\* the code fence of three backquotes, a character the strings of TLA+
\* cannot hold: an apostrophe stands for it
Fence == "'''"

\* line 328: the table between two fences, each on a line of its own
CodeBlock(text) == Fence \o "\n" \o text \o "\n" \o Fence

-----------------------------------------------------------------------------
(* cogs/network.py: the semaphore of the cog (lines 26-30, 188-239) *)

\* self.semaphore = asyncio.Semaphore(20)
SemaphoreSlots == 20

\* asyncio.Semaphore.locked(): no slot is free
SemaphoreLockedBelowZero(value) == value < 0

SemaphoreLocked(value) == value = 0

\* async with self.semaphore: __aenter__ takes a slot
SemaphoreAcquire(value) == value - 1

\* async with self.semaphore: __aexit__ gives the slot back, on a normal
\* return and on an exception alike
SemaphoreRelease(value) == value + 1

-----------------------------------------------------------------------------
(* GateSpec: the fetch_competition tasks of the runs of one cog at the     *)
(* semaphore. The tasks of a run are alike at the gate, so a run is the    *)
(* number of its tasks at each position: created by gather (line 242), *)
(* waiting in acquire, admitted with the link fetch in flight (line 190),  *)
(* finished (slot released).                                               *)

GateRuns == 1..2

GateLimit(r) == IF r = 1 THEN MaxCandidates ELSE OtherCandidates

NoTasks == [created |-> 0, waiting |-> 0, inflight |-> 0, finished |-> 0]

GateIdle ==
    /\ semaphore = SemaphoreSlots
    /\ gate = [r \in GateRuns |-> NoTasks]

\* no invocation under way
IdleRun ==
    [pc |-> "idle", hq_input |-> << >>, hq_code |-> << >>,
     min_openness |-> 0, max_distance |-> 0, hq |-> 0, candidates |-> << >>, scored |-> << >>, sent |-> << >>]

RunIdle ==
    /\ run = IdleRun
    /\ task = << >>

\* nothing ranked or rendered
TableIdle ==
    /\ unranked = << >>
    /\ ranked = << >>
    /\ rendered = ""
    /\ content = ""

GateInit ==
    /\ now = 0
    /\ cache = << >>
    /\ call = << >>
    /\ GateIdle
    /\ RunIdle
    /\ TableIdle
    /\ ScoringLoaded
    /\ LinksIdle

\* lines 242-244: gather creates one task per candidate
GateGather(r) ==
    /\ gate[r] = NoTasks
    /\ \E n \in 1..GateLimit(r) :
            gate' = [gate EXCEPT ![r].created = n]
    /\ UNCHANGED semaphore

\* line 188, first run of a task: it takes a free slot and issues its link
\* fetch, or waits
GateTaskStartPerRun(r) ==
    /\ gate[r].created > 0
    /\ IF gate[r].inflight = SemaphoreSlots
       THEN /\ gate' = [gate EXCEPT ![r].created = @ - 1,
                                    ![r].waiting = @ + 1]
            /\ UNCHANGED semaphore
       ELSE /\ gate' = [gate EXCEPT ![r].created = @ - 1,
                                    ![r].inflight = @ + 1]
            /\ semaphore' = SemaphoreAcquire(semaphore)

GateTaskStart(r) ==
    /\ gate[r].created > 0
    /\ IF SemaphoreLocked(semaphore)
       THEN /\ gate' = [gate EXCEPT ![r].created = @ - 1,
                                    ![r].waiting = @ + 1]
            /\ UNCHANGED semaphore
       ELSE /\ gate' = [gate EXCEPT ![r].created = @ - 1,
                                    ![r].inflight = @ + 1]
            /\ semaphore' = SemaphoreAcquire(semaphore)

\* line 188: a waiting task is woken once a slot is free
GateTaskWake(r) ==
    /\ gate[r].waiting > 0
    /\ ~SemaphoreLocked(semaphore)
    /\ gate' = [gate EXCEPT ![r].waiting = @ - 1, ![r].inflight = @ + 1]
    /\ semaphore' = SemaphoreAcquire(semaphore)

\* lines 190-239: the link fetch resolves, the task annotates its candidate
\* (or raises) and leaves the async with block
GateTaskFinish(r) ==
    /\ gate[r].inflight > 0
    /\ gate' = [gate EXCEPT ![r].inflight = @ - 1, ![r].finished = @ + 1]
    /\ semaphore' = SemaphoreRelease(semaphore)

GateNext ==
    \/ \E r \in GateRuns : GateGather(r) /\ UNCHANGED <<cacheVars, runVars, tableVars, scoringVars, linksVars>>
    \/ \E r \in GateRuns :
            GateTaskStart(r) /\ UNCHANGED <<cacheVars, runVars, tableVars, scoringVars, linksVars>>
    \/ \E r \in GateRuns : GateTaskWake(r) /\ UNCHANGED <<cacheVars, runVars, tableVars, scoringVars, linksVars>>
    \/ \E r \in GateRuns :
            GateTaskFinish(r) /\ UNCHANGED <<cacheVars, runVars, tableVars, scoringVars, linksVars>>

GateSpec == GateInit /\ [][GateNext]_vars

-----------------------------------------------------------------------------
(* CacheSpec: NumCalls callers of fetch_countries, fetch_airports and      *)
(* fetch_airport_links, in any interleaving                                *)

CallIds == 1..NumCalls

CacheInit ==
    /\ now = 0
    /\ cache = << >>
    /\ call = [i \in CallIds |-> IdleCall]
    /\ GateIdle
    /\ RunIdle
    /\ TableIdle
    /\ ScoringLoaded
    /\ LinksIdle

FetchCountries(id) == FetchJsonStart(id, COUNTRIES, TRUE)

FetchAirports(id) == FetchJsonStart(id, AIRPORTS, TRUE)

\* fetch_json(f"/airports/{airport_id}/links", use_cache=False)
FetchAirportLinksCached(id) ==
    FetchJsonStart(id, LinksEndpoint(1), TRUE)

FetchAirportLinks(id) ==
    FetchJsonStart(id, LinksEndpoint(1), FALSE)

Respond(id) ==
    \E outcome \in Outcomes : FetchJsonRespond(id, outcome)

CacheNext ==
    \/ Tick /\ UNCHANGED <<gateVars, runVars, tableVars, scoringVars, linksVars>>
    \/ \E id \in CallIds : FetchCountries(id) /\ UNCHANGED <<gateVars, runVars, tableVars, scoringVars, linksVars>>
    \/ \E id \in CallIds : FetchAirports(id) /\ UNCHANGED <<gateVars, runVars, tableVars, scoringVars, linksVars>>
    \/ \E id \in CallIds :
            FetchAirportLinks(id) /\ UNCHANGED <<gateVars, runVars, tableVars, scoringVars, linksVars>>
    \/ \E id \in CallIds : Respond(id) /\ UNCHANGED <<gateVars, runVars, tableVars, scoringVars, linksVars>>

CacheSpec == CacheInit /\ [][CacheNext]_vars

-----------------------------------------------------------------------------
(* Spec: invocations of network_run, one after another, on a cog whose      *)
(* semaphore another invocation may hold                                    *)

\* the bulk calls of the run: 1 is fetch_countries, 2 is fetch_airports
BulkCalls == {1, 2}

BulkEndpoint(id) == IF id = 1 THEN COUNTRIES ELSE AIRPORTS

BulkBodies(id) == IF id = 1 THEN CountriesBodies ELSE AirportsBodies

\* the command's parameters
HqCodes == {<<"l", "a", "x">>, <<"H", "A", "V">>, <<"J", "F", "K">>}

MinOpennessValues == {0, 5}

MaxDistanceValues == {400, 20000}

\* the cog serves every invocation: at the start another invocation holds
\* no slot of the semaphore, or all of them (a state GateSpec reaches)
Init ==
    /\ now = 0
    /\ cache = << >>
    /\ call = [id \in BulkCalls |-> IdleCall]
    /\ \E held \in {0, SemaphoreSlots} :
        /\ semaphore = SemaphoreSlots - held
        /\ gate = [r \in GateRuns |->
                    IF r = 2 THEN [NoTasks EXCEPT !.inflight = held]
                    ELSE NoTasks]
    /\ RunIdle
    /\ TableIdle
    /\ ScoringLoaded
    /\ LinksIdle

\* lines 58-75: the command starts and gathers the two bulk fetches
Invoke ==
    /\ run.pc = "idle"
    /\ \E hq_code \in HqCodes, min_openness \in MinOpennessValues,
          max_distance \in MaxDistanceValues :
        run' = [IdleRun EXCEPT !.pc = "bulk",
                               !.hq_input = hq_code,
                               !.hq_code = Upper(hq_code),
                               !.min_openness = min_openness,
                               !.max_distance = max_distance]
    /\ UNCHANGED <<cacheVars, gateVars, task, tableVars, scoringVars, linksVars>>

\* fetch_countries or fetch_airports runs to its first suspension point
BulkStart(id) ==
    /\ run.pc = "bulk"
    /\ FetchJsonStart(id, BulkEndpoint(id), TRUE)
    /\ UNCHANGED <<gateVars, runVars, tableVars, scoringVars, linksVars>>

\* the response of a bulk request
BulkRespond(id) ==
    /\ \E outcome \in OutcomesUpTo(Len(BulkBodies(id))) :
            FetchJsonRespond(id, outcome)
    /\ UNCHANGED <<gateVars, runVars, tableVars, scoringVars, linksVars>>

\* a task gather created: requests counts its calls of fetch_airport_links,
\* writes its assignments of the candidate's competition (line 238), and
\* finished is its place in the order in which the tasks finished
NewTask ==
    [pc |-> "created", fetched |-> FALSE, competition |-> 0, e |-> "",
     requests |-> 0, writes |-> 0, finished |-> 0]

\* lines 72-244: the gather of the bulk fetches returns; the run ends with
\* a failure message or gathers one fetch_competition task per candidate
BulkJoin ==
    /\ run.pc = "bulk"
    /\ \A id \in BulkCalls : call[id].pc = "returned"
    /\ run' = AfterBulk(run, call[1].result, call[2].result)
    /\ task' = [k \in 1..Len(run'.candidates) |-> NewTask]
    /\ UNCHANGED <<cacheVars, gateVars, tableVars, scoringVars, linksVars>>

\* line 188, first run of the task of candidate k
TaskStart(k) ==
    /\ task[k].pc = "created"
    /\ IF SemaphoreLocked(semaphore)
       THEN /\ task' = [task EXCEPT ![k].pc = "waiting"]
            /\ UNCHANGED semaphore
       ELSE /\ task' = [task EXCEPT ![k].pc = "inflight",
                                    ![k].requests = @ + 1]
            /\ semaphore' = SemaphoreAcquire(semaphore)
    /\ UNCHANGED <<cacheVars, gate, run, tableVars, scoringVars, linksVars>>

\* line 188: the waiting task of candidate k gets a slot
TaskWake(k) ==
    /\ task[k].pc = "waiting"
    /\ ~SemaphoreLocked(semaphore)
    /\ task' = [task EXCEPT ![k].pc = "inflight", ![k].requests = @ + 1]
    /\ semaphore' = SemaphoreAcquire(semaphore)
    /\ UNCHANGED <<cacheVars, gate, run, tableVars, scoringVars, linksVars>>

\* the airport of candidate k
CandidateAirport(k) ==
    Data(AirportsBodies, call[2].result).items[run.candidates[k].airport]

\* the tasks that returned or raised
Finished(tasks) == {j \in DOMAIN tasks : tasks[j].pc \in {"done", "raised"}}

\* lines 190-239: the task once fetch_airport_links returned links: it
\* raised, or it wrote the competition into its candidate and returned
TaskAfterLinksRetry(t, links, competition, nth) ==
    IF links = None /\ t.requests < 2
    THEN [t EXCEPT !.requests = @ + 1]
    ELSE [t EXCEPT !.pc = "done", !.fetched = links # None,
                   !.competition = competition.n, !.writes = @ + 1,
                   !.finished = nth]

TaskAfterLinks(t, links, competition, nth) ==
    IF competition.t = "raise"
    THEN [t EXCEPT !.pc = "raised", !.fetched = links # None,
                   !.e = competition.e, !.finished = nth]
    ELSE [t EXCEPT !.pc = "done", !.fetched = links # None,
                   !.competition = competition.n, !.writes = @ + 1,
                   !.finished = nth]

\* lines 190-239: fetch_airport_links (fetch_json without the cache)
\* returns; the task sums the capacities, or raises, and releases its slot
LinkRespond(k) ==
    /\ task[k].pc = "inflight"
    /\ \E outcome \in OutcomesUpTo(Len(LinksBodies)) :
        LET cache_key == LinksEndpoint(DictGet(CandidateAirport(k), "id", None))
            links == FetchResult(outcome)
            competition == Competition(Data(LinksBodies, links))
        IN  /\ cache' = CacheAfterResponse(cache, cache_key, FALSE, outcome, now)
            /\ task' = [task EXCEPT ![k] =
                    TaskAfterLinks(task[k], links, competition,
                                   Cardinality(Finished(task)) + 1)]
    /\ semaphore' = SemaphoreRelease(semaphore)
    /\ UNCHANGED <<now, call, gate, run, tableVars, scoringVars, linksVars>>

\* the candidate of task k as fetch_competition returned it
ResultOf(k) ==
    [airport |-> run.candidates[k].airport,
     distance |-> run.candidates[k].distance,
     openness |-> run.candidates[k].openness,
     competition |-> task[k].competition]

\* line 242: gather returns the results in the order of its arguments,
\* the order of filtered_airports, whatever the order the tasks finished in
ResultsAsFinished ==
    [n \in 1..Len(run.candidates) |->
        ResultOf(CHOOSE k \in DOMAIN task : task[k].finished = n)]

Results == [k \in 1..Len(run.candidates) |-> ResultOf(k)]

\* line 242: gather returns once every task returned
SomeReturned(tasks) == \E k \in DOMAIN tasks : tasks[k].pc = "done"

AllReturned(tasks) == \A k \in DOMAIN tasks : tasks[k].pc = "done"

\* lines 242-336: the gather of the tasks raises the exception of a task as
\* soon as one raised, and returns once all returned
EnrichJoin ==
    /\ run.pc = "enrich"
    /\ IF \E k \in DOMAIN task : task[k].pc = "raised"
       THEN \E k \in DOMAIN task :
                /\ task[k].pc = "raised"
                /\ run' = [run EXCEPT
                            !.pc = "done",
                            !.sent = HandleException(run.sent, task[k].e)]
       ELSE /\ AllReturned(task)
            /\ run' = AfterEnrich(run,
                        Data(AirportsBodies, call[2].result).items, Results)
    /\ UNCHANGED <<cacheVars, gateVars, task, tableVars, scoringVars, linksVars>>

\* a link fetch of the other invocation resolves and frees its slot
OtherRunFinish ==
    /\ gate[2].finished < OtherFinishes
    /\ GateTaskFinish(2)
    /\ UNCHANGED <<cacheVars, runVars, tableVars, scoringVars, linksVars>>

\* the command is invoked again once the run and its tasks are over
Reset ==
    /\ run.pc = "done"
    /\ \A k \in DOMAIN task : task[k].pc \in {"done", "raised"}
    /\ run' = IdleRun
    /\ task' = << >>
    /\ call' = [id \in BulkCalls |-> IdleCall]
    /\ UNCHANGED <<now, cache, gateVars, tableVars, scoringVars, linksVars>>

Next ==
    \/ Invoke
    \/ \E id \in BulkCalls : BulkStart(id)
    \/ \E id \in BulkCalls : BulkRespond(id)
    \/ BulkJoin
    \/ \E k \in DOMAIN task : TaskStart(k)
    \/ \E k \in DOMAIN task : TaskWake(k)
    \/ \E k \in DOMAIN task : LinkRespond(k)
    \/ EnrichJoin
    \/ OtherRunFinish
    \/ Reset

Spec == Init /\ [][Next]_vars

\* the tasks a run can have: one per airport other than the HQ
TaskIds == 1..(Len(AirportsBodies[1].items) - 1)

\* LiveSpec: the event loop runs every task that is ready (a created task
\* reaches the semaphore, a waiter is woken once a slot is free, the gather
\* returns to network_run) and every airport-link fetch resolves, those of
\* the other invocation included
LiveSpec ==
    /\ Spec
    /\ \A k \in TaskIds :
        /\ WF_vars(k \in DOMAIN task /\ TaskStart(k))
        /\ WF_vars(k \in DOMAIN task /\ TaskWake(k))
        /\ WF_vars(k \in DOMAIN task /\ LinkRespond(k))
    /\ WF_vars(EnrichJoin)
    /\ WF_vars(OtherRunFinish)

-----------------------------------------------------------------------------
(* RankSpec: lines 313-315 applied to the scored rows of a run with up to   *)
(* MaxScored scoreable candidates                                           *)

\* the scores the rows take, in hundredths
BosValues == {7021, 9034}

\* the row the scoring loop appends for the n-th scoreable candidate
ScoredRow(n, bos) ==
    [iata |-> <<ToString(n)>>, name |-> "Unknown", country_code |-> "US",
     openness |-> 10, distance |-> 314517, population |-> 50, income |-> 30,
     competition |-> 0, bos |-> bos]

RankInit ==
    /\ now = 0
    /\ cache = << >>
    /\ call = << >>
    /\ GateIdle
    /\ RunIdle
    /\ TableIdle
    /\ ScoringLoaded
    /\ LinksIdle

\* lines 276-287: scored_airports.append(...)
RankAppend ==
    /\ ranked = << >>
    /\ Len(unranked) < MaxScored
    /\ \E bos \in BosValues :
            unranked' = Append(unranked, ScoredRow(Len(unranked) + 1, bos))
    /\ UNCHANGED <<ranked, rendered, content>>

\* lines 314-315: the sort and the cut (line 305 returned if no row scored)
RankSort ==
    /\ unranked # << >>
    /\ ranked = << >>
    /\ ranked' = Top(SortByBos(unranked, 1, << >>))
    /\ UNCHANGED <<unranked, rendered, content>>

RankNext ==
    \/ RankAppend /\ UNCHANGED <<cacheVars, gateVars, runVars, scoringVars, linksVars>>
    \/ RankSort /\ UNCHANGED <<cacheVars, gateVars, runVars, scoringVars, linksVars>>

RankSpec == RankInit /\ [][RankNext]_vars

-----------------------------------------------------------------------------
(* TableSpec: _format_table applied to top_airports of 1 to MaxRows rows,   *)
(* and the message sent with the table                                      *)

\* rows as the scoring loop builds them: one of the pipeline above, one
\* whose name, population and score are wider than their columns and whose
\* competition is negative, one whose IATA code is 30 characters long
TableRows ==
    [plain |-> [iata |-> <<"s", "f", "o">>, name |-> "San Francisco",
                country_code |-> "US", openness |-> 10,
                distance |-> 543662, population |-> 50, income |-> 30,
                competition |-> 0, bos |-> 269060],
     large |-> [iata |-> <<"L", "A", "X">>,
                name |-> "Los Angeles International Airport",
                country_code |-> "US", openness |-> 2,
                distance |-> 12345678, population |-> 12345678,
                income |-> 54321, competition |-> -5000,
                bos |-> 123456705],
     wide |-> [iata |-> [i \in 1..30 |-> "X"], name |-> "Unknown",
               country_code |-> "??", openness |-> 0,
               distance |-> 0, population |-> 1, income |-> 1,
               competition |-> 75000, bos |-> 7]]

\* top_airports: n rows, of two kinds in turn
TableInput(n, odd, even) ==
    [i \in 1..n |-> IF i % 2 = 1 THEN TableRows[odd] ELSE TableRows[even]]

TableInit ==
    /\ now = 0
    /\ cache = << >>
    /\ call = << >>
    /\ GateIdle
    /\ RunIdle
    /\ unranked = << >>
    /\ \E n \in 1..MaxRows : \E odd, even \in DOMAIN TableRows :
            ranked = TableInput(n, odd, even)
    /\ rendered = ""
    /\ content = ""
    /\ ScoringLoaded
    /\ LinksIdle

\* line 322: table = self._format_table(top_airports)
TableFormat ==
    /\ rendered = ""
    /\ rendered' = FormatTable(ranked)
    /\ UNCHANGED <<unranked, ranked, content>>

\* line 328: followup.send of the table in a code block
TableSend ==
    /\ rendered # ""
    /\ content = ""
    /\ content' = CodeBlock(rendered)
    /\ UNCHANGED <<unranked, ranked, rendered>>

TableNext ==
    \/ TableFormat /\ UNCHANGED <<cacheVars, gateVars, runVars, scoringVars, linksVars>>
    \/ TableSend /\ UNCHANGED <<cacheVars, gateVars, runVars, scoringVars, linksVars>>

TableSpec == TableInit /\ [][TableNext]_vars

-----------------------------------------------------------------------------
(* ScoringSpec: the import of utils/scoring.py under every setting of       *)
(* BOS_PROFILE, and the calls of calculate_bos that follow it               *)

\* the values of the environment variable BOS_PROFILE
ProfileSettings ==
    {"balanced", "growth", "conservative", "GROWTH", "Conservative",
     "aggressive", "growth ", ""}

\* the arguments of the calls
Populations == {0, 200}

IncomeLevels == {20, 30}

Competitions == {-5000, 0, 5000, 25000, 75000}

Distances == {543662, 3701319}

ScoringInit ==
    /\ now = 0
    /\ cache = << >>
    /\ call = << >>
    /\ GateIdle
    /\ RunIdle
    /\ TableIdle
    /\ environ \in {<< >>} \cup {[BOS_PROFILE |-> v] : v \in ProfileSettings}
    /\ scoring = NotImported
    /\ bosCalls = << >>
    /\ LinksIdle

\* lines 1-68: the bot starts and imports the module
Import ==
    /\ ~scoring.imported
    /\ scoring.error = ""
    /\ scoring' = ImportScoring(environ)
    /\ UNCHANGED <<environ, bosCalls>>

\* the call and the one before it
LastTwo(calls) == SubSeq(calls, Max(1, Len(calls) - 1), Len(calls))

\* lines 71-134: a call of calculate_bos, with the default openness
Score ==
    /\ scoring.imported
    /\ \E population \in Populations, income_level \in IncomeLevels,
          competition \in Competitions, distance \in Distances :
        bosCalls' = LastTwo(Append(bosCalls,
            [population |-> population, income_level |-> income_level,
             competition |-> competition, distance |-> distance,
             bos |-> CalculateBos(population, income_level, competition,
                                  distance, DefaultOpenness)]))
    /\ UNCHANGED <<environ, scoring>>

ScoringNext ==
    \/ Import /\ UNCHANGED <<cacheVars, gateVars, runVars, tableVars, linksVars>>
    \/ Score /\ UNCHANGED <<cacheVars, gateVars, runVars, tableVars, linksVars>>

ScoringSpec == ScoringInit /\ [][ScoringNext]_vars

-----------------------------------------------------------------------------
(* CompetitionSpec: fetch_competition (lines 192-238) applied to what       *)
(* fetch_airport_links can return                                           *)

\* the records of a link list: the three key names alone and together,
\* nested capacities with and without a total, values and records of the
\* wrong type
LinkRecords ==
    { JDict([capacity |-> JNum(50000)]),
      JDict([assignedCapacity |-> JNum(25000)]),
      JDict([totalCapacity |-> JNum(25000)]),
      JDict([capacity |-> JNum(100), assignedCapacity |-> JNum(200),
             totalCapacity |-> JNum(300)]),
      JDict([assignedCapacity |-> JNum(200), totalCapacity |-> JNum(300)]),
      JDict([capacity |-> JDict([economy |-> JNum(20000),
                                 business |-> JNum(4000),
                                 first |-> JNum(1000)])]),
      JDict([capacity |-> JDict([total |-> JNum(20000),
                                 economy |-> JNum(15000),
                                 business |-> JNum(4000),
                                 first |-> JNum(1000)])]),
      JDict([capacity |-> JStr("many")]),
      JDict([capacity |-> JNull, assignedCapacity |-> JNum(500)]),
      JDict([airline |-> JNum(7)]),
      JStr("x") }

\* the link lists: up to two records
LinkLists ==
    {<< >>} \cup {<<a>> : a \in LinkRecords}
        \cup {<<a, b>> : a \in LinkRecords, b \in LinkRecords}

\* what fetch_airport_links returns: None, a list, a dict that wraps the
\* list under "links" or "data", or something else
LinkResponses ==
    {JNull, JStr("unavailable"), JDict([links |-> JStr("none")]),
     JDict([count |-> JNum(0)])}
        \cup {JList(l) : l \in LinkLists}
        \cup {JDict([links |-> JList(l)]) : l \in LinkLists}
        \cup {JDict([data |-> JList(l)]) : l \in LinkLists}

CompetitionInit ==
    /\ now = 0
    /\ cache = << >>
    /\ call = << >>
    /\ GateIdle
    /\ RunIdle
    /\ TableIdle
    /\ ScoringLoaded
    /\ response \in LinkResponses
    /\ seats = Pending

\* lines 192-238: the task sums the capacities of the links it got
FetchCompetition ==
    /\ seats = Pending
    /\ seats' = Competition(response)
    /\ UNCHANGED response

CompetitionNext ==
    FetchCompetition /\ UNCHANGED <<cacheVars, gateVars, runVars, tableVars, scoringVars>>

CompetitionSpec == CompetitionInit /\ [][CompetitionNext]_vars

-----------------------------------------------------------------------------
(* Claims about fetch_json and the cache, checked under CacheSpec *)

\* the call issued a network request
Issued(i) == call[i].via \in {"network", "ok", "failed"}

\* the step starts call i (fetch_json runs to its first suspension point)
Starts(i) == call[i].pc = "idle" /\ call'[i].pc # "idle"

\* the step is the response of call i's request
Responds(i) == call[i].pc = "pending" /\ call'[i].pc = "returned"

\* C3 as stated: any two calls of fetch_json for the same cached endpoint
\* that both start within one 600 s window issue exactly one network request
\* between them, under every interleaving. While now < CACHE_TTL every call
\* made so far started within the window [0, 600).
C3_OneRequestPerWindow ==
    now < CACHE_TTL =>
        \A i, j \in DOMAIN call :
            (/\ i # j
             /\ call[i].pc # "idle" /\ call[j].pc # "idle"
             /\ call[i].use_cache /\ call[j].use_cache
             /\ call[i].endpoint = call[j].endpoint)
            => Cardinality({k \in {i, j} : Issued(k)}) = 1

\* C3 amended: a call that starts after another call's request for the same
\* cached endpoint returned a 200 response, less than 600 s after that
\* response was stored, is served from the cache and issues no request, so
\* the two calls issue exactly one request between them.
C3_OneRequestAfterStore ==
    [][\A i, j \in DOMAIN call :
        (/\ i # j
         /\ call[i].pc = "returned" /\ call[i].via = "ok" /\ call[i].use_cache
         /\ Starts(j)
         /\ call'[j].use_cache /\ call'[j].endpoint = call[i].endpoint
         /\ now - call[i].storedAt < CACHE_TTL)
        => /\ call'[j].pc = "returned"
           /\ call'[j].via = "cache"
           /\ Issued(i)]_cacheVars

\* a call that got and stored a 200 response, and a later call of the same
\* endpoint served from the cache
C3_Witness ==
    \E i, j \in DOMAIN call :
        /\ i # j
        /\ call[i].via = "ok" /\ call[i].use_cache
        /\ call[j].via = "cache" /\ call[j].endpoint = call[i].endpoint

\* C4: fetch_json with caching never returns a cached payload whose age is
\* 600 s or more: an entry younger than 600 s is returned without a network
\* request, an expired or absent entry causes a network request, and the
\* successful response of that request replaces the entry's payload and
\* timestamp.
C4_CacheServesOnlyFresh ==
    [][\A i \in DOMAIN call :
        /\ (Starts(i) /\ call'[i].use_cache) =>
            LET e == call'[i].endpoint IN
            IF e \in DOMAIN cache /\ now - cache[e].timestamp < CACHE_TTL
            THEN /\ call'[i].pc = "returned"
                 /\ call'[i].via = "cache"
                 /\ call'[i].result = cache[e].data
                 /\ cache' = cache
            ELSE /\ call'[i].pc = "pending"
                 /\ call'[i].via = "network"
        /\ (Starts(i) /\ call'[i].via = "cache") =>
            now - cache[call'[i].endpoint].timestamp < CACHE_TTL
        /\ (Responds(i) /\ call'[i].via = "ok" /\ call[i].use_cache) =>
            cache'[call[i].endpoint] =
                [data |-> call'[i].result, timestamp |-> now]]_cacheVars

\* an entry stored at time 0 expired, was fetched again and replaced 600 s
\* or more later, and a third call was served from the cache
C4_Witness ==
    \E i, j, k \in DOMAIN call :
        /\ call[i].via = "ok" /\ call[i].use_cache /\ call[i].storedAt = 0
        /\ call[j].via = "ok" /\ call[j].endpoint = call[i].endpoint
        /\ call[j].storedAt >= CACHE_TTL
        /\ cache[call[j].endpoint].timestamp = call[j].storedAt
        /\ call[k].via = "cache" /\ call[k].endpoint = call[i].endpoint

\* C5: a call of fetch_json whose request ends in a network error, a timeout
\* or a status other than 200 returns None, returns normally to its caller,
\* and leaves the cache as it was.
C5_FailureReturnsNone ==
    [][\A i \in DOMAIN call :
        (Responds(i) /\ call'[i].via = "failed")
        => /\ call'[i].result = None
           /\ call'[i].pc = "returned"
           /\ cache' = cache]_cacheVars

\* a cached call failed while the cache held an entry, which is still there
C5_Witness ==
    \E i \in DOMAIN call :
        /\ call[i].pc = "returned" /\ call[i].via = "failed"
        /\ call[i].use_cache
        /\ call[i].endpoint \in DOMAIN cache

\* C13: fetch_airport_links never reads and never writes the cache: every
\* call issues a network request whatever the cache contains, and the cache
\* is unchanged after the call whether the request succeeds or fails; the
\* cache never holds an entry of a links endpoint.
C13_LinksBypassCache ==
    /\ [](\A airport_id \in 1..4 : LinksEndpoint(airport_id) \notin DOMAIN cache)
    /\ [][\A i \in DOMAIN call :
            /\ (Starts(i) /\ call'[i].endpoint = LinksEndpoint(1)) =>
                    /\ call'[i].pc = "pending"
                    /\ call'[i].via = "network"
                    /\ cache' = cache
            /\ (Responds(i) /\ call[i].endpoint = LinksEndpoint(1)) =>
                    /\ cache' = cache
                    /\ call'[i].via \in {"ok", "failed"}]_cacheVars

\* a link fetch answered by the network and another of the same airport
\* whose request is under way, while the cache holds a bulk collection
C13_Witness ==
    \E i, j \in DOMAIN call :
        /\ i # j
        /\ call[i].endpoint = LinksEndpoint(1) /\ call[i].via = "ok"
        /\ call[j].endpoint = LinksEndpoint(1) /\ call[j].via = "network"
        /\ cache # << >>

\* C14: under any interleaving of fetches of a cached endpoint, the cache
\* entry of the endpoint is absent or is the payload of one successful
\* response together with the time it was stored, that of the writer that
\* completed last; a step changes the cache only by putting such an entry
\* whole, and every call returns the payload of its own response, of a
\* cache entry, or None.
C14_EntryIsOneResponse ==
    /\ [](\A key \in DOMAIN cache :
            \E i \in DOMAIN call :
                /\ call[i].pc = "returned" /\ call[i].via = "ok"
                /\ call[i].use_cache /\ call[i].endpoint = key
                /\ cache[key] = [data |-> call[i].result,
                                 timestamp |-> call[i].storedAt]
                /\ \A j \in DOMAIN call :
                        (/\ call[j].via = "ok" /\ call[j].use_cache
                         /\ call[j].endpoint = key)
                        => call[j].storedAt <= cache[key].timestamp)
    /\ [][cache' # cache =>
            \E i \in DOMAIN call :
                /\ Responds(i) /\ call'[i].via = "ok" /\ call[i].use_cache
                /\ DOMAIN cache' = DOMAIN cache \cup {call[i].endpoint}
                /\ cache'[call[i].endpoint] =
                        [data |-> call'[i].result, timestamp |-> now]
                /\ \A key \in DOMAIN cache \ {call[i].endpoint} :
                        cache'[key] = cache[key]]_cacheVars

\* two callers of the same cached endpoint raced: both requested, both were
\* answered at the same time with different payloads, and the entry is the
\* payload of one of them
C14_Witness ==
    \E i, j \in DOMAIN call :
        /\ i # j
        /\ call[i].via = "ok" /\ call[j].via = "ok"
        /\ call[i].use_cache /\ call[j].use_cache
        /\ call[i].endpoint = call[j].endpoint
        /\ call[i].storedAt = call[j].storedAt
        /\ call[i].result # call[j].result
        /\ cache[call[i].endpoint].data = call[j].result

\* C27 as stated: the cache never stores the failure value: the payload of
\* every cache entry is not None, a call of fetch_json returns None only if
\* it issued a network request itself and that request failed, and a call
\* served from the cache never returns None (also when a 200 response
\* carries a JSON null body).
C27_CacheNeverHoldsNone ==
    /\ \A key \in DOMAIN cache : cache[key].data # None
    /\ \A i \in DOMAIN call :
        (call[i].pc = "returned" /\ call[i].result = None) =>
            call[i].via = "failed"
    /\ \A i \in DOMAIN call : call[i].via = "cache" => call[i].result # None

-----------------------------------------------------------------------------
(* Claims about the admission gate, checked under GateSpec *)

\* link fetches admitted by the gate and not yet resolved, over all runs
GateInFlight == gate[1].inflight + gate[2].inflight

\* C1: in every reachable state, for any number of candidates, at most 20
\* airport-link fetches are admitted and unresolved, and the free slots of
\* the gate are the 20 less those in flight, so that a task that finds 20
\* in flight waits until one of them releases its slot.
C1_AtMost20InFlight ==
    /\ GateInFlight <= 20
    /\ semaphore = 20 - GateInFlight

\* 20 fetches in flight and the 21st task of the run waiting
C1_Witness ==
    /\ gate[1].inflight = 20
    /\ gate[1].waiting > 0

-----------------------------------------------------------------------------
(* Claims about network_run, checked under Spec *)

\* the run is past the gather of the bulk fetches
PastBulk == run.pc \in {"enrich", "done"}

\* the kinds of the messages the run sent, in order
SentKinds == [i \in 1..Len(run.sent) |-> run.sent[i].kind]

\* what the bulk fetches returned
CountriesData == Data(CountriesBodies, call[1].result)

AirportsData == Data(AirportsBodies, call[2].result)

\* a collection of records, as the data model has it
WellFormed(data) ==
    /\ data.t = "list"
    /\ \A i \in 1..Len(data.items) : data.items[i].t = "dict"

\* C2 as stated: a candidate whose link fetch failed or returned a malformed
\* payload gets competition 0 (or the sum of the well-formed records) from a
\* fetch_competition that completes without raising, and the run is not
\* failed by it.
C2_BadLinksAbsorbed ==
    /\ \A k \in DOMAIN task :
        task[k].pc \in {"done", "raised"} =>
            /\ task[k].pc = "done"
            /\ ~task[k].fetched => task[k].competition = 0
    /\ (run.pc = "done" /\ run.candidates # << >>) =>
            \A i \in 1..Len(run.sent) : run.sent[i].kind # "error"

\* C6: if the countries fetch or the airports fetch returned failure, the
\* run ends with the 'data unavailable' message and nothing else, decided
\* after both fetches resolved, without any link fetch and without a table.
C6_BulkFailureIsUnavailable ==
    /\ (PastBulk /\ (call[1].result = None \/ call[2].result = None)) =>
            /\ run.pc = "done"
            /\ SentKinds = <<"unavailable">>
            /\ task = << >>
    /\ (\E i \in 1..Len(run.sent) : run.sent[i].kind = "unavailable") =>
            \A id \in BulkCalls : call[id].pc = "returned"

\* the countries arrived, the airports did not, and the run ended
C6_Witness ==
    /\ run.pc = "done"
    /\ call[1].result # None
    /\ call[2].result = None
    /\ call[2].via = "failed"

C8_Openness(country_code) ==
    LET countries == CountriesData.items
    IN  IF \E j \in 1..Len(countries) :
                countries[j].fields.countryCode = country_code
        THEN countries[CHOOSE j \in 1..Len(countries) :
                countries[j].fields.countryCode = country_code].fields.openness
        ELSE 0

C8_Distance(i) ==
    LET hq == AirportsData.items[run.hq].fields
        airport == AirportsData.items[i].fields
    IN  Haversine(hq.latitude, hq.longitude,
                  airport.latitude, airport.longitude)

\* airport i passes the filter
C8_Qualifies(i) ==
    /\ i # run.hq
    /\ C8_Openness(AirportsData.items[i].fields.countryCode)
            >= run.min_openness
    /\ C8_Distance(i) <= run.max_distance * 1000

\* C8: the candidates are exactly the airports, in the order of the
\* collection, that are not the HQ, whose country openness (0 without a
\* country record) is >= min_openness and whose distance from the HQ is
\* <= max_distance; no other airport is in the table; without candidates
\* the run ends with 'no matches' and no link fetch.
C8_CandidatesAreTheFilter ==
    (/\ PastBulk
     /\ run.hq # 0
     /\ WellFormed(CountriesData)
     /\ WellFormed(AirportsData)) =>
        LET airports == AirportsData.items
            expected ==
                SelectSeq([i \in 1..Len(airports) |-> i], C8_Qualifies)
        IN  /\ [k \in 1..Len(run.candidates) |-> run.candidates[k].airport]
                    = expected
            /\ \A k \in 1..Len(run.candidates) :
                /\ run.candidates[k].distance
                        = C8_Distance(run.candidates[k].airport)
                /\ run.candidates[k].openness
                        = C8_Openness(airports[run.candidates[k].airport]
                                            .fields.countryCode)
            /\ \A m \in 1..Len(run.sent) :
                \A n \in 1..Len(run.sent[m].rows) :
                    \E i \in 1..Len(airports) :
                        /\ C8_Qualifies(i)
                        /\ airports[i].fields.iata = run.sent[m].rows[n].iata
            /\ expected = << >> =>
                /\ run.pc = "done"
                /\ SentKinds = <<"no_matches">>
                /\ task = << >>

\* of the three airports other than the HQ, the filter kept one
C8_Witness ==
    /\ PastBulk
    /\ run.hq = 1
    /\ run.min_openness = 5
    /\ Len(run.candidates) = 1
    /\ Len(AirportsData.items) = 4

\* the letters of a and b are the same, whatever their case
C9_SameIgnoringCase(a, b) ==
    /\ Len(a) = Len(b)
    /\ \A i \in 1..Len(a) :
        \/ a[i] = b[i]
        \/ a[i] \in DOMAIN LowerToUpper /\ LowerToUpper[a[i]] = b[i]
        \/ b[i] \in DOMAIN LowerToUpper /\ LowerToUpper[b[i]] = a[i]

C9_Matches(i) ==
    C9_SameIgnoringCase(AirportsData.items[i].fields.iata, run.hq_input)

\* C9: the run ends with 'airport not found' exactly when no airport of the
\* collection has the input's IATA code, compared without case; otherwise
\* the first such airport in the order of the collection is the HQ.
C9_HqIsFirstMatch ==
    (/\ PastBulk
     /\ WellFormed(CountriesData)
     /\ WellFormed(AirportsData)) =>
        LET matches == {i \in 1..Len(AirportsData.items) : C9_Matches(i)}
        IN  /\ ("not_found" \in {run.sent[m].kind : m \in 1..Len(run.sent)})
                    <=> matches = {}
            /\ matches = {} => run.pc = "done" /\ SentKinds = <<"not_found">>
            /\ matches # {} =>
                /\ run.hq \in matches
                /\ \A i \in matches : run.hq <= i

\* "lax" resolved to the first of the two airports that answer to it
C9_Witness ==
    /\ PastBulk
    /\ run.hq_input = <<"l", "a", "x">>
    /\ run.hq = 1
    /\ C9_Matches(4)

\* the candidate has a population and an income level above 0
C10_Scoreable(candidate) ==
    LET airport == AirportsData.items[candidate.airport].fields
    IN  airport.population > 0 /\ airport.incomeLevel > 0

C10_Iata(candidate) == AirportsData.items[candidate.airport].fields.iata

\* C10: calculate_bos gives no score exactly when population <= 0 or
\* incomeLevel <= 0, whatever the competition and the distance; the scored
\* rows of a run are its candidates with population > 0 and incomeLevel > 0,
\* in order, the others being dropped; without any the run ends with 'no
\* valid scores' and no table.
C10_OnlyScoreableRanked ==
    /\ \A population \in {-1, 0, 50, 200}, income_level \in {-1, 0, 20, 30},
          competition \in {-5000, 0, 25000, 75000},
          distance \in {314517, 543662, 3701319} :
            (CalculateBos(population, income_level, competition, distance,
                          DefaultOpenness).t = "null")
                <=> (population <= 0 \/ income_level <= 0)
    /\ (/\ run.pc = "done"
        /\ Len(run.sent) = 1
        /\ run.sent[1].kind \in {"table", "no_valid_scores"}) =>
            LET scoreable == SelectSeq(run.candidates, C10_Scoreable)
                rows == run.sent[1].rows
            IN  /\ [n \in 1..Len(run.scored) |-> run.scored[n].iata]
                        = [n \in 1..Len(scoreable) |-> C10_Iata(scoreable[n])]
                /\ {rows[n].iata : n \in 1..Len(rows)}
                        = {C10_Iata(scoreable[n]) : n \in 1..Len(scoreable)}
                /\ scoreable = << >> <=> run.sent[1].kind = "no_valid_scores"
                /\ run.sent[1].kind = "no_valid_scores" => rows = << >>

\* a table was sent and a candidate without population is not in it
C10_Witness ==
    /\ run.pc = "done"
    /\ Len(run.sent) = 1
    /\ run.sent[1].kind = "table"
    /\ \E k \in 1..Len(run.candidates) : ~C10_Scoreable(run.candidates[k])
    /\ Len(run.sent[1].rows) < Len(run.candidates)

\* the generic failure message carrying the text of an exception
C16_ErrorMessage(text) == [kind |-> "error", rows |-> << >>, text |-> text]

\* a payload that makes the loops of network_run raise: a record of the
\* collection is no dict
C16_Malformed(data) ==
    /\ data.t = "list"
    /\ \E i \in 1..Len(data.items) : data.items[i].t # "dict"

\* C16: an exception raised while the collections are read, the HQ is
\* resolved, the airports are filtered or a candidate is enriched is caught
\* inside network_run: the run ends with exactly one message, the generic
\* failure carrying the text of the exception, and no other; the generic
\* failure is sent for no other reason; each bulk fetch was made once and a
\* task that raised is not run again.
C16_ExceptionsBecomeOneMessage ==
    /\ (PastBulk /\ call[1].result # None /\ call[2].result # None) =>
        /\ C16_Malformed(CountriesData) =>
                /\ run.pc = "done"
                /\ run.sent = <<C16_ErrorMessage(
                                "'str' object has no attribute 'get'")>>
                /\ task = << >>
        /\ (WellFormed(CountriesData) /\ C16_Malformed(AirportsData)) =>
                /\ run.pc = "done"
                /\ run.sent = <<C16_ErrorMessage(
                                "'int' object has no attribute 'get'")>>
                /\ task = << >>
    /\ (run.pc = "done" /\ \E k \in DOMAIN task : task[k].pc = "raised") =>
            run.sent = <<C16_ErrorMessage(
                "unsupported operand type(s) for +: 'NoneType' and 'int'")>>
    /\ (\E m \in 1..Len(run.sent) : run.sent[m].kind = "error") =>
        /\ run.pc = "done"
        /\ Len(run.sent) = 1
        /\ \A id \in BulkCalls : call[id].pc = "returned"
        /\ \/ C16_Malformed(CountriesData)
           \/ C16_Malformed(AirportsData)
           \/ \E k \in DOMAIN task : task[k].pc = "raised"

\* a task raised while the task of another candidate was still waiting for
\* its links, and the run ended with the generic failure
C16_Witness ==
    /\ run.pc = "done"
    /\ Len(run.sent) = 1
    /\ run.sent[1].kind = "error"
    /\ \E k, other \in DOMAIN task :
        /\ task[k].pc = "raised"
        /\ task[other].pc = "inflight"

\* C17 as stated: the score of each row of the table is the scoring
\* function applied to the row's population, income level, competition,
\* distance and the openness of the row's own country.
C17_ScoreUsesOwnOpenness ==
    \A m \in 1..Len(run.sent) :
        \A n \in 1..Len(run.sent[m].rows) :
            LET row == run.sent[m].rows[n]
            IN  row.bos = CalculateBos(row.population, row.income,
                                       row.competition, row.distance,
                                       row.openness).n

\* C18 as stated: after the enrichment stage every candidate has
\* competition >= 0 and distance >= 0, whatever the link responses hold.
C18_CompetitionNotNegative ==
    \A k \in DOMAIN task :
        task[k].pc = "done" =>
            /\ task[k].competition >= 0
            /\ run.candidates[k].distance >= 0

\* the run sent a result of the scoring stage
C23_Scored ==
    \/ run.scored # << >>
    \/ \E m \in 1..Len(run.sent) :
            run.sent[m].kind \in {"table", "no_valid_scores"}

\* C23: within one run no airport-link fetch is issued, and no task exists,
\* before both the countries fetch and the airports fetch have resolved;
\* and no candidate is scored, ranked or rendered before the link fetch of
\* every candidate has resolved and its competition has been written.
C23_StepsInOrder ==
    /\ [](task # << >> =>
            /\ PastBulk
            /\ \A id \in BulkCalls : call[id].pc = "returned")
    /\ [](C23_Scored =>
            \A k \in 1..Len(run.candidates) :
                /\ task[k].pc = "done"
                /\ task[k].requests = 1
                /\ task[k].writes = 1)
    /\ [][\A k \in DOMAIN task :
            (k \in DOMAIN task' /\ task'[k].requests > task[k].requests) =>
                /\ run.pc \in {"enrich", "done"}
                /\ \A id \in BulkCalls : call[id].pc = "returned"
                /\ ~C23_Scored]_runVars

\* a table of two rows or more was sent after three link fetches, the last
\* of which had waited at the gate
C23_Witness ==
    /\ run.pc = "done"
    /\ Len(run.sent) = 1
    /\ run.sent[1].kind = "table"
    /\ Len(run.sent[1].rows) >= 2
    /\ Len(task) = 3
    /\ gate[2].finished > 0

\* C24: in one run each candidate's task issues at most one airport-link
\* request, exactly one once it is admitted, and each bulk endpoint is
\* fetched by one call that issues at most one request; a call or a task
\* whose request failed stays as it returned, without another request,
\* until the run is over; the competition of a candidate is written at
\* most once, by its own task, and exactly once when the task returns.
C24_OneRequestEach ==
    /\ [](\A k \in DOMAIN task :
            /\ task[k].requests <= 1
            /\ task[k].requests = 1
                    <=> task[k].pc \in {"inflight", "done", "raised"}
            /\ task[k].writes <= 1
            /\ task[k].writes = 1 <=> task[k].pc = "done")
    /\ [](Len(task) = Len(run.candidates))
    /\ [](run.pc # "idle" =>
            \A id \in BulkCalls :
                call[id].pc # "idle" => call[id].endpoint = BulkEndpoint(id))
    /\ [][\A id \in BulkCalls :
            (call[id].pc = "returned" /\ run'.pc # "idle") =>
                call'[id] = call[id]]_runVars
    /\ [][\A k \in DOMAIN task :
            (task[k].pc \in {"done", "raised"} /\ task' # << >>) =>
                task'[k] = task[k]]_runVars
    /\ [][\A k \in DOMAIN task :
            (k \in DOMAIN task' /\ task'[k].writes > task[k].writes) =>
                \A j \in DOMAIN task \ {k} : task'[j] = task[j]]_runVars

\* a run ended with a table although the link request of a candidate had
\* failed: the candidate was fetched once and has competition 0
C24_Witness ==
    /\ run.pc = "done"
    /\ Len(run.sent) = 1
    /\ run.sent[1].kind = "table"
    /\ call[1].via = "ok" /\ call[2].via = "ok"
    /\ \E k \in DOMAIN task :
        /\ ~task[k].fetched
        /\ task[k].requests = 1
        /\ task[k].writes = 1

\* the candidate a row of the table was made from
C25_Candidate(row) ==
    CHOOSE k \in 1..Len(run.candidates) :
        C10_Iata(run.candidates[k]) = row.iata

\* C25: the table of a run is determined by the bulk data and the
\* competition each candidate's link response gives, whatever the order in
\* which the link fetches were admitted and completed: every row has the
\* distance, the competition and the score of its own candidate, every
\* scoreable candidate has a row (up to 15), and the rows are in descending
\* order of score, rows of equal score in the order of the candidates.
C25_ResultIndependentOfOrder ==
    (/\ run.pc = "done"
     /\ Len(run.sent) = 1
     /\ run.sent[1].kind = "table") =>
        LET rows == run.sent[1].rows
            place == [n \in 1..Len(rows) |-> C25_Candidate(rows[n])]
            scoreable ==
                {k \in 1..Len(run.candidates) :
                    C10_Scoreable(run.candidates[k])}
        IN  /\ Len(rows) = Min(15, Cardinality(scoreable))
            /\ \A n \in 1..Len(rows) :
                LET k == place[n]
                    airport == AirportsData.items[run.candidates[k].airport]
                IN  /\ k \in scoreable
                    /\ rows[n].distance = run.candidates[k].distance
                    /\ rows[n].competition = task[k].competition
                    /\ rows[n].bos =
                        CalculateBos(airport.fields.population,
                                     airport.fields.incomeLevel,
                                     task[k].competition,
                                     run.candidates[k].distance,
                                     DefaultOpenness).n
            /\ \A n \in 1..(Len(rows) - 1) :
                \/ rows[n].bos > rows[n + 1].bos
                \/ /\ rows[n].bos = rows[n + 1].bos
                   /\ place[n] < place[n + 1]

\* two candidates of equal score, the second of which finished first, are
\* listed in the order of the candidates
C25_Witness ==
    /\ run.pc = "done"
    /\ Len(run.sent) = 1
    /\ run.sent[1].kind = "table"
    /\ Len(run.sent[1].rows) = 2
    /\ run.sent[1].rows[1].bos = run.sent[1].rows[2].bos
    /\ task[2].finished = 1
    /\ task[1].finished = 2
    /\ C25_Candidate(run.sent[1].rows[1]) = 1

-----------------------------------------------------------------------------
(* Claims about the enrichment stage, checked under LiveSpec *)

\* C12 as stated: if every airport-link fetch eventually resolves, every
\* fetch_competition task eventually gets a slot and annotates its
\* candidate, and the enrichment stage eventually completes with all
\* candidates annotated and goes on to scoring.
C12_EnrichmentCompletes ==
    (run.pc = "enrich") ~>
        (/\ run.pc = "done"
         /\ \A k \in DOMAIN task : task[k].pc = "done"
         /\ run.sent # << >>
         /\ run.sent[1].kind \in {"table", "no_valid_scores"})

-----------------------------------------------------------------------------
(* Claims about the ranking, checked under RankSpec *)

\* the place of a row in scored_airports, the order of the candidates
C11_Place(row) == CHOOSE k \in 1..Len(unranked) : unranked[k] = row

-----------------------------------------------------------------------------
(* Claims about the table, checked under TableSpec *)

\* the character of a text at a position
CharAt(text, i) == SubSeq(text, i, i)

\* the positions of the line breaks of a text
LineBreaks(text) == {i \in 1..Len(text) : CharAt(text, i) = "\n"}

\* where line k of a text starts (k >= 2): after its (k-1)-th line break
LineStart(text, k) ==
    1 + CHOOSE p \in LineBreaks(text) :
            Cardinality({q \in LineBreaks(text) : q < p}) = k - 2

\* C19: _format_table returns the rendered text unchanged when it has at
\* most 1900 characters, and otherwise its first 1900 characters followed
\* by "..."; the message sent with it has at most 2000 characters.
C19_TruncatedTo1900 ==
    /\ rendered # "" =>
        LET text == JoinLines(TableLines(ranked))
        IN  /\ Len(text) <= 1900 => rendered = text
            /\ Len(text) > 1900 =>
                /\ Len(rendered) = 1903
                /\ SubSeq(rendered, 1, 1900) = SubSeq(text, 1, 1900)
                /\ SubSeq(rendered, 1901, 1903) = "..."
    /\ content # "" =>
        /\ Len(content) = Len(rendered) + 8
        /\ Len(content) <= 2000
        /\ SubSeq(content, 5, Len(rendered) + 4) = rendered

\* a table of more than 1900 characters was cut and sent
C19_Witness ==
    /\ Len(JoinLines(TableLines(ranked))) > 1900
    /\ Len(rendered) = 1903
    /\ content # ""

\* the layout of the table, with a separator made of the character c
C20_Layout(c) ==
    rendered # "" =>
        LET h == Len(Header)
        IN  /\ SubSeq(rendered, 1, h) = Header
            /\ CharAt(rendered, h + 1) = "\n"
            /\ \A i \in (h + 2)..(2 * h + 1) : CharAt(rendered, i) = c
            /\ CharAt(rendered, 2 * h + 2) = "\n"
            /\ Len(rendered) <= 1900 =>
                /\ Cardinality(LineBreaks(rendered)) = Len(ranked) + 1
                /\ \A k \in 1..Len(ranked) :
                    LET start == LineStart(rendered, k + 2)
                        rank == ToString(k)
                        iata == Join(ranked[k].iata)
                    IN  /\ SubSeq(rendered, start, start + 3)
                                = Repeat(" ", 4 - Len(rank)) \o rank
                        /\ SubSeq(rendered, start + 4, start + 6) = " | "
                        /\ SubSeq(rendered, start + 7,
                                  start + 6 + Len(iata)) = iata

\* C20 as stated: the table starts with the header row, followed by a
\* separator line made only of '=' characters, as long as the header,
\* followed by one row per ranked candidate numbered 1..n in rank order.
C20_SeparatorOfEquals == C20_Layout("=")

\* C20 amended: the table starts with the header row, followed by a
\* separator line made only of '-' characters, as long as the header,
\* followed (when the text has at most 1900 characters and is returned
\* whole) by one row per ranked candidate numbered 1..n in rank order.
C20_SeparatorOfDashes == C20_Layout("-")

\* a table of 15 rows returned whole
C20_Witness ==
    /\ Len(ranked) = 15
    /\ rendered # ""
    /\ Len(rendered) <= 1900
    /\ Cardinality(LineBreaks(rendered)) = 16

-----------------------------------------------------------------------------
(* Claims about the scoring module, checked under ScoringSpec *)

\* two calls of calculate_bos that differ in the competition only, the
\* first with the smaller competition
C21_Pairs ==
    {pair \in (DOMAIN bosCalls) \X (DOMAIN bosCalls) :
        LET a == bosCalls[pair[1]]
            b == bosCalls[pair[2]]
        IN  /\ a.population = b.population /\ a.population > 0
            /\ a.income_level = b.income_level /\ a.income_level > 0
            /\ a.distance = b.distance
            /\ a.competition < b.competition}

\* C21 as stated: for fixed population > 0, incomeLevel > 0 and distance,
\* for any two competition values c1 < c2 the score at c1 is strictly
\* greater than the score at c2.
C21_StrictlyDecreasing ==
    \A pair \in C21_Pairs :
        bosCalls[pair[1]].bos.n > bosCalls[pair[2]].bos.n

\* C21 amended: for fixed population > 0, incomeLevel > 0 and distance, for
\* any two competition values 0 <= c1 < c2 the score at c1 is strictly
\* greater than the score at c2; a competition below 0 is scored as 0, so
\* for c1 < c2 <= 0 the two scores are equal. Every score is a number.
C21_StrictlyDecreasingFromZero ==
    \A pair \in C21_Pairs :
        LET a == bosCalls[pair[1]]
            b == bosCalls[pair[2]]
        IN  /\ a.bos.t = "num" /\ b.bos.t = "num"
            /\ a.competition >= 0 => a.bos.n > b.bos.n
            /\ b.competition <= 0 => a.bos.n = b.bos.n
            /\ a.bos.n >= b.bos.n

\* under the profile "conservative", two calls with competition 25000 and
\* 75000 and the same other arguments
C21_Witness ==
    /\ scoring.BOS_PROFILE = "conservative"
    /\ \E pair \in C21_Pairs :
        /\ bosCalls[pair[1]].competition = 25000
        /\ bosCalls[pair[2]].competition = 75000
        /\ bosCalls[pair[1]].bos.n > bosCalls[pair[2]].bos.n

\* BOS_PROFILE is set, to one of the values
C22_SettingIn(values) ==
    /\ "BOS_PROFILE" \in DOMAIN environ
    /\ environ["BOS_PROFILE"] \in values

\* BOS_PROFILE is not set
C22_Unset == "BOS_PROFILE" \notin DOMAIN environ

\* C22: for every value of the BOS_PROFILE setting the import succeeds and
\* leaves exactly one active profile, one of balanced, growth and
\* conservative: a recognized name (in any case of its letters) selects
\* that profile without a warning, no setting selects balanced without a
\* warning, and any other value selects balanced with one warning; the
\* active profile is never changed afterwards.
C22_OneProfileActive ==
    /\ [](scoring.error = "")
    /\ [](scoring.imported =>
            /\ scoring.BOS_PROFILE \in {"balanced", "growth", "conservative"}
            /\ scoring.ACTIVE_PROFILE = PROFILES[scoring.BOS_PROFILE]
            /\ (C22_Unset \/ C22_SettingIn({"balanced"})) =>
                    /\ scoring.BOS_PROFILE = "balanced"
                    /\ scoring.printed = << >>
            /\ C22_SettingIn({"growth", "GROWTH"}) =>
                    /\ scoring.BOS_PROFILE = "growth"
                    /\ scoring.printed = << >>
            /\ C22_SettingIn({"conservative", "Conservative"}) =>
                    /\ scoring.BOS_PROFILE = "conservative"
                    /\ scoring.printed = << >>
            /\ C22_SettingIn({"aggressive", "growth ", ""}) =>
                    /\ scoring.BOS_PROFILE = "balanced"
                    /\ Len(scoring.printed) = 1)
    /\ [][scoring.imported => scoring' = scoring]_scoringVars

\* the bot started with an unrecognized setting, printed the warning and
\* scored with the parameters of the profile "balanced"
C22_Witness ==
    /\ C22_SettingIn({"aggressive"})
    /\ scoring.imported
    /\ scoring.BOS_PROFILE = "balanced"
    /\ scoring.printed
        = <<"Warning: Unknown BOS_PROFILE 'aggressive', defaulting to 'balanced'">>
    /\ bosCalls # << >>

-----------------------------------------------------------------------------
(* Claims about the capacity sum, checked under CompetitionSpec *)

\* the number a value stands for, 0 if it is no number
C26_Number(v) == IF v.t = "num" THEN v.n ELSE 0

\* the value of a key of a dict, 0 if the key is absent or holds no number
C26_Field(d, key) ==
    IF key \in DOMAIN d.fields THEN C26_Number(d.fields[key]) ELSE 0

\* the capacity of one record: that of the first key present among
\* capacity, assignedCapacity and totalCapacity; a number counts as it is,
\* a breakdown counts its total once (its "total", or else the sum of its
\* classes), anything else counts 0
C26_Capacity(link) ==
    IF link.t # "dict" THEN 0
    ELSE
        LET keys == <<"capacity", "assignedCapacity", "totalCapacity">>
            present == {i \in 1..3 : keys[i] \in DOMAIN link.fields}
        IN  IF present = {} THEN 0
            ELSE
                LET cap == link.fields[
                        keys[CHOOSE i \in present : \A j \in present : i <= j]]
                IN  IF cap.t = "num" THEN cap.n
                    ELSE IF cap.t # "dict" THEN 0
                    ELSE IF "total" \in DOMAIN cap.fields
                    THEN C26_Field(cap, "total")
                    ELSE C26_Field(cap, "economy")
                            + C26_Field(cap, "business")
                            + C26_Field(cap, "first")

RECURSIVE C26_Sum(_)
C26_Sum(links) ==
    IF links = << >> THEN 0
    ELSE C26_Capacity(Head(links)) + C26_Sum(Tail(links))

\* the competition seats of a link response
C26_Seats(links) ==
    IF links.t = "list" THEN C26_Sum(links.items)
    ELSE IF links.t # "dict" THEN 0
    ELSE IF "links" \in DOMAIN links.fields
    THEN (IF links.fields["links"].t = "list"
          THEN C26_Sum(links.fields["links"].items) ELSE 0)
    ELSE IF "data" \in DOMAIN links.fields
    THEN (IF links.fields["data"].t = "list"
          THEN C26_Sum(links.fields["data"].items) ELSE 0)
    ELSE 0

\* C26 as stated: a candidate's competition is the sum, over the dict
\* records of its link response (a list, or the 'links'/'data' list of a
\* dict response), of each record's capacity, read from the first key
\* present in the order capacity, assignedCapacity, totalCapacity; a record
\* with none of the keys or a non-numeric capacity adds 0, and a nested
\* capacity breakdown adds the total of its sub-fields counted once.
C26_CompetitionIsTheSum ==
    seats # Pending => seats = JNum(C26_Seats(response))

====
